---- MODULE Spec2Model ----
(***************************************************************************)
(* Checkout / payment orchestration of the storefront: order creation,     *)
(* settlement (mark-paid), the admin order operations, the payment status  *)
(* poller, the checkout page's completion handler and the scheduled        *)
(* shipping-notification sweep.                                            *)
(*                                                                         *)
(* Money is counted in whole cents (0.01 is 1).  Time is counted in ticks  *)
(* of 12 hours.  A datastore call that the code checks for an error is     *)
(* modelled with both outcomes.                                            *)
(***************************************************************************)
EXTENDS Integers, Sequences, FiniteSets, TLC

\* ------------------------------------------------------------------ bounds
MaxStock == 2        \* stock values range over 0..MaxStock
MaxTime == 3         \* the clock runs over 0..MaxTime
MaxInFlight == 2     \* status fetches awaiting their response
MaxCountdown == 2    \* the countdown runs over 0..MaxCountdown
MaxCouponUses == 2   \* current_uses of a coupon runs over 0..MaxCouponUses
MaxCheckoutOrders == 2  \* orders one checkout page session creates
MaxRateTime == 3      \* the rate limiter's clock runs over 0..MaxRateTime
MaxChecks == 8        \* rate-limit checks made in one behaviour

\* ------------------------------------------------------- program constants
Tolerance == 1            \* 0.01, in cents
NotificationDelay == 2    \* 24 hours, in 12-hour ticks

\* ------------------------------------------------------------- identities
ProductIds == {"p1", "p2"}             \* rows of the products table
MissingProduct == "px"                 \* an id with no products row
MarkPaidReqs == {"r1", "r2"}           \* concurrent mark-paid requests
SweepRuns == {"s1", "s2"}              \* concurrent runs of the sweep script
Handlers == {"h1", "h2"}               \* invocations of handlePaymentComplete
Statuses == {"pending", "paid", "shipped", "delivered", "cancelled"}
NoOrder == 0                           \* an order id with no orders row

VARIABLES
  stock,        \* products.stock, by product id
  orders,       \* the orders table: a sequence of rows, the id is the index
  decs,         \* observation: successful stock writes per order and line item
  mp,           \* the mark-paid requests in progress
  cr,           \* the order-creation request in progress
  now,          \* the clock
  sweep,        \* the sweep runs in progress
  emailsSent,   \* observation: shipping emails sent per order
  poll,         \* the payment screen (CustomBTCPayCheckout)
  page,         \* the checkout page (CheckoutPage)
  cpn,          \* a coupon row, its usage rows and the validation in progress
  shp,          \* the shipping configuration and the rate request in progress
  inv,          \* the invoice-creation request in progress
  rl,           \* the rate limiter: its clock, its store, its last answer
  chk           \* concurrent checkouts that use the coupon

vars == <<stock, orders, decs, mp, cr, now, sweep, emailsSent, poll, page,
         cpn, shp, inv, rl, chk>>

storeVars == <<stock, orders, decs, mp, cr>>
sweepVars == <<now, sweep, emailsSent>>
guardVars == <<rl, chk>>
sideVars == <<cpn, shp, inv, guardVars>>

\* ----------------------------------------------------------------- helpers
Max(a, b) == IF a >= b THEN a ELSE b
Abs(a) == IF a >= 0 THEN a ELSE -a
\* observation counters tell 0, 1 and "more than once" (2) apart
Bump(n) == IF n = 0 THEN 1 ELSE 2

RECURSIVE SumSeq(_)
SumSeq(s) == IF s = <<>> THEN 0 ELSE Head(s) + SumSeq(Tail(s))

OrderIds == 1..Len(orders)

\* ====================================================================
\* POST /api/orders/mark-paid
\* ====================================================================
MpIdle == [pc |-> "idle", orderId |-> NoOrder, items |-> <<>>, idx |-> 0,
           read |-> 0, result |-> "none"]

\* existingOrder.status === "paid": the short-circuit of the handler
AlreadyPaidNoCheck(status) == FALSE
AlreadyPaid(status) == status = "paid"

\* Math.max(0, product.stock - item.quantity)
NewStockNoClamp(s, q) == s - q
NewStock(s, q) == Max(0, s - q)

\* a request arrives (the slot holds the previous response until then):
\* select status, items from orders where id = orderId; then the status check
MarkPaidFetchOrder(r, o) ==
  /\ mp[r].pc \in {"idle", "done"}
  /\ \/ /\ o \in OrderIds
        /\ IF AlreadyPaid(orders[o].status)
             THEN mp' = [mp EXCEPT ![r] = [MpIdle EXCEPT !.pc = "done",
                            !.orderId = o, !.result = "already_paid"]]
             ELSE mp' = [mp EXCEPT ![r] = [MpIdle EXCEPT !.pc = "item",
                            !.orderId = o, !.items = orders[o].items, !.idx = 1]]
     \/ \* fetchError || !existingOrder
        /\ mp' = [mp EXCEPT ![r] = [MpIdle EXCEPT !.pc = "done",
                            !.orderId = o, !.result = "not_found"]]
  /\ UNCHANGED <<stock, orders, decs, cr, sweepVars, poll, page, sideVars>>

\* a failed read or write of one item's stock: logged, then the loop goes on
\* with the next item
SkipItemAbort(req) ==
  [MpIdle EXCEPT !.pc = "done", !.orderId = req.orderId, !.result = "update_failed"]
SkipItem(req) == [req EXCEPT !.pc = "item", !.idx = @ + 1, !.read = 0]

\* select stock from products where id = item.id
MarkPaidReadStock(r) ==
  /\ mp[r].pc = "item"
  /\ mp[r].idx <= Len(mp[r].items)
  /\ LET item == mp[r].items[mp[r].idx] IN
     \/ /\ item.id \in DOMAIN stock
        /\ mp' = [mp EXCEPT ![r].pc = "write", ![r].read = stock[item.id]]
     \/ \* productError || !product: continue with the next item
        /\ mp' = [mp EXCEPT ![r] = SkipItem(mp[r])]
  /\ UNCHANGED <<stock, orders, decs, cr, sweepVars, poll, page, sideVars>>

\* product.stock in the computation of newStock: the value the select
\* returned, whatever the row holds when the update is issued
ProductStockCurrent(read, current) == current
ProductStock(read, current) == read

\* update products set stock = newStock where id = item.id
MarkPaidWriteStock(r) ==
  /\ mp[r].pc = "write"
  /\ LET item == mp[r].items[mp[r].idx]
         o == mp[r].orderId
         newStock == NewStock(ProductStock(mp[r].read, stock[item.id]),
                              item.quantity) IN
     \/ /\ stock' = [stock EXCEPT ![item.id] = newStock]
        /\ decs' = [decs EXCEPT ![o][mp[r].idx] = Bump(@)]
        /\ mp' = [mp EXCEPT ![r].pc = "item", ![r].idx = @ + 1, ![r].read = 0]
     \/ \* updateError: logged, the loop goes on
        /\ UNCHANGED <<stock, decs>>
        /\ mp' = [mp EXCEPT ![r] = SkipItem(mp[r])]
  /\ UNCHANGED <<orders, cr, sweepVars, poll, page, sideVars>>

\* update orders set status = 'paid', paid_at = now where id = orderId
MarkPaidUpdateStatus(r) ==
  /\ mp[r].pc = "item"
  /\ mp[r].idx > Len(mp[r].items)
  /\ \/ /\ orders' = [orders EXCEPT ![mp[r].orderId].status = "paid",
                                    ![mp[r].orderId].paid_at = TRUE]
        /\ mp' = [mp EXCEPT ![r] = [MpIdle EXCEPT !.pc = "done",
                            !.orderId = mp[r].orderId, !.result = "success"]]
     \/ \* error: 500 "Failed to update order"
        /\ UNCHANGED orders
        /\ mp' = [mp EXCEPT ![r] = [MpIdle EXCEPT !.pc = "done",
                            !.orderId = mp[r].orderId, !.result = "update_failed"]]
  /\ UNCHANGED <<stock, decs, cr, sweepVars, poll, page, sideVars>>

\* ====================================================================
\* POST /api/orders/create
\* ====================================================================
NoResp == [kind |-> "none", productName |-> "", availableStock |-> 0,
           orderId |-> NoOrder]
CrIdle == [pc |-> "idle", req |-> <<>>, idx |-> 0, resp |-> NoResp]

Item(id, price, quantity, mods) ==
  [id |-> id, name |-> id, price |-> price, quantity |-> quantity,
   selectedModifiers |-> mods]

Request(items, total, shipping, discount, email) ==
  [items |-> items, totalAmount |-> total, shippingCost |-> shipping,
   couponDiscount |-> discount, email |-> email, couponCode |-> "null"]

\* the request sent with a couponCode
WithCouponCode(req, code) == [req EXCEPT !.couponCode = code]

\* item.selectedModifiers.reduce((modSum, mod) => modSum + mod.priceAdjustment, 0)
ModifierTotal(item) == SumSeq(item.selectedModifiers)

\* (item.price + modifierTotal) * item.quantity
ItemTotal(item) == (item.price + ModifierTotal(item)) * item.quantity

\* items.reduce((sum, item) => sum + itemTotal, 0)
RECURSIVE CalculatedSubtotal(_)
CalculatedSubtotal(items) ==
  IF items = <<>> THEN 0
  ELSE ItemTotal(Head(items)) + CalculatedSubtotal(Tail(items))

\* calculatedSubtotal + (shippingCost ?? 0) - (couponDiscount ?? 0)
CalculatedTotal(items, shipping, discount) ==
  CalculatedSubtotal(items) + shipping - discount

\* Math.abs(calculatedTotal - totalAmount) > 0.01
TotalMismatchOneSided(calculated, total) == calculated - total > Tolerance
TotalMismatch(calculated, total) == Abs(calculated - total) > Tolerance

\* productStock.stock < item.quantity
InsufficientStockOffByOne(available, quantity) == available + 1 < quantity
InsufficientStock(available, quantity) == available < quantity

\* the row inserted by the handler
NewOrderRow(req) ==
  [status |-> "pending", total_amount |-> req.totalAmount, items |-> req.items,
   shipping_cost |-> req.shippingCost, coupon_discount |-> req.couponDiscount,
   coupon_code |-> req.couponCode,
   paid_at |-> FALSE, shipping_email |-> req.email,
   tracking_number |-> "null", shipping_tracking_url |-> "null",
   scheduled_at |-> {}, sent_at |-> {}, btcpay_invoice_id |-> "null"]

\* a request arrives that passed rate limiting and createOrderSchema
CreateOrderStart(reqs, slots) ==
  /\ cr.pc = "idle"
  /\ Len(orders) < Cardinality(slots)
  /\ \E req \in reqs : cr' = [CrIdle EXCEPT !.pc = "check", !.req = req, !.idx = 1]
  /\ UNCHANGED <<stock, orders, decs, mp, sweepVars, poll, page, sideVars>>

\* one round of the stock loop: select stock from products where id = item.id
CreateOrderCheckStock ==
  /\ cr.pc = "check"
  /\ cr.idx <= Len(cr.req.items)
  /\ LET item == cr.req.items[cr.idx] IN
     \/ /\ item.id \in DOMAIN stock
        /\ IF InsufficientStock(stock[item.id], item.quantity)
             THEN cr' = [cr EXCEPT !.pc = "done",
                           !.resp = [NoResp EXCEPT !.kind = "insufficient_stock",
                                       !.productName = item.name,
                                       !.availableStock = stock[item.id]]]
             ELSE cr' = [cr EXCEPT !.idx = @ + 1]
     \/ \* productError || !product
        /\ cr' = [cr EXCEPT !.pc = "done",
                     !.resp = [NoResp EXCEPT !.kind = "not_found",
                                 !.productName = item.name]]
  /\ UNCHANGED <<stock, orders, decs, mp, sweepVars, poll, page, sideVars>>

\* the total check, then insert into orders
CreateOrderInsert ==
  /\ cr.pc = "check"
  /\ cr.idx > Len(cr.req.items)
  /\ LET req == cr.req
         calculatedTotal ==
           CalculatedTotal(req.items, req.shippingCost, req.couponDiscount) IN
     IF TotalMismatch(calculatedTotal, req.totalAmount)
       THEN /\ cr' = [cr EXCEPT !.pc = "done",
                        !.resp = [NoResp EXCEPT !.kind = "total_mismatch"]]
            /\ UNCHANGED <<orders, decs>>
       ELSE \/ /\ orders' = Append(orders, NewOrderRow(req))
               /\ decs' = Append(decs, [i \in 1..Len(req.items) |-> 0])
               /\ cr' = [cr EXCEPT !.pc = "done",
                           !.resp = [NoResp EXCEPT !.kind = "ok",
                                       !.orderId = Len(orders) + 1]]
            \/ \* result.error || !result.data: 500 "Failed to create order"
               /\ cr' = [cr EXCEPT !.pc = "done",
                           !.resp = [NoResp EXCEPT !.kind = "insert_failed"]]
               /\ UNCHANGED <<orders, decs>>
  /\ UNCHANGED <<stock, mp, sweepVars, poll, page, sideVars>>

\* the response has been returned
CreateOrderReturn ==
  /\ cr.pc = "done"
  /\ cr' = CrIdle
  /\ UNCHANGED <<stock, orders, decs, mp, sweepVars, poll, page, sideVars>>

\* ====================================================================
\* Admin back-office
\* ====================================================================
\* updateOrderStatus: the status select offers every status for every order
updateOrderStatus(o, status) ==
  /\ o \in OrderIds
  /\ orders' = [orders EXCEPT ![o].status = status]
  /\ UNCHANGED <<stock, decs, mp, cr, sweepVars, poll, page, sideVars>>

\* markAsShipped: the button is rendered for orders shown as paid; the form
\* requires a tracking number and a tracking URL
markAsShipped(o) ==
  /\ o \in OrderIds
  /\ orders[o].status = "paid"
  /\ now + NotificationDelay <= MaxTime
  /\ orders' = [orders EXCEPT ![o].status = "shipped",
                              ![o].tracking_number = "set",
                              ![o].shipping_tracking_url = "set",
                              ![o].scheduled_at = {now + NotificationDelay}]
  /\ UNCHANGED <<stock, decs, mp, cr, sweepVars, poll, page, sideVars>>

\* handleSubmit of the product form: stock = parseInt(formData.stock), the
\* input has min=0 step=1
handleSubmit(p, value) ==
  /\ p \in DOMAIN stock
  /\ stock' = [stock EXCEPT ![p] = value]
  /\ UNCHANGED <<orders, decs, mp, cr, sweepVars, poll, page, sideVars>>

\* ====================================================================
\* scripts/send-scheduled-shipping-notifications.ts
\* ====================================================================
\* the where clause of the query: scheduled_at not null, sent_at null,
\* scheduled_at <= now, shipping_email, tracking_number and
\* shipping_tracking_url not null
Due(row, t) ==
  /\ row.scheduled_at # {}
  /\ row.sent_at = {}
  /\ \A at \in row.scheduled_at : at <= t
  /\ row.shipping_email # "null"
  /\ row.tracking_number # "null"
  /\ row.shipping_tracking_url # "null"

\* the rows the query returns, as ids in table order
RECURSIVE SelectFrom(_, _)
SelectFrom(o, t) ==
  IF o > Len(orders) THEN <<>>
  ELSE IF Due(orders[o], t) THEN <<o>> \o SelectFrom(o + 1, t)
  ELSE SelectFrom(o + 1, t)

\* the loop moves to the next selected order, or the run ends
SweepAdvanceStop(run) == [pc |-> "done", selected |-> <<>>, idx |-> 0]
SweepAdvance(run) ==
  IF run.idx + 1 > Len(run.selected)
    THEN [pc |-> "done", selected |-> <<>>, idx |-> 0]
    ELSE [run EXCEPT !.pc = "send", !.idx = @ + 1]

\* processPendingNotifications starts: the query returned the due rows
SweepSelectOk(s) ==
  /\ sweep[s].pc \in {"idle", "done"}
  /\ LET found == SelectFrom(1, now) IN
       sweep' = [sweep EXCEPT ![s] =
                   IF found = <<>>
                     THEN [pc |-> "done", selected |-> <<>>, idx |-> 0]
                     ELSE [pc |-> "send", selected |-> found, idx |-> 1]]
  /\ UNCHANGED <<storeVars, now, emailsSent, poll, page, sideVars>>

\* error: "Database query error", the run ends
SweepSelectError(s) ==
  /\ sweep[s].pc \in {"idle", "done"}
  /\ sweep' = [sweep EXCEPT ![s] = [pc |-> "done", selected |-> <<>>, idx |-> 0]]
  /\ UNCHANGED <<storeVars, now, emailsSent, poll, page, sideVars>>

SweepSelect(s) == SweepSelectOk(s) \/ SweepSelectError(s)

\* sendShippingEmail(order) returned true: the mail API accepted the message
SweepSendOk(s) ==
  /\ sweep[s].pc = "send"
  /\ LET o == sweep[s].selected[sweep[s].idx] IN
       emailsSent' = [emailsSent EXCEPT ![o] = Bump(@)]
  /\ sweep' = [sweep EXCEPT ![s].pc = "stamp"]
  /\ UNCHANGED <<storeVars, now, poll, page, sideVars>>

\* the send threw: sendShippingEmail returned false, the order is left as it
\* is and the loop goes on
SweepSendFail(s) ==
  /\ sweep[s].pc = "send"
  /\ sweep' = [sweep EXCEPT ![s] = SweepAdvance(sweep[s])]
  /\ UNCHANGED <<storeVars, now, emailsSent, poll, page, sideVars>>

SweepSend(s) == SweepSendOk(s) \/ SweepSendFail(s)

\* update orders set shipping_notification_sent_at = now where id = order.id
SweepStampOk(s) ==
  /\ sweep[s].pc = "stamp"
  /\ LET o == sweep[s].selected[sweep[s].idx] IN
       orders' = [orders EXCEPT ![o].sent_at = {now}]
  /\ sweep' = [sweep EXCEPT ![s] = SweepAdvance(sweep[s])]
  /\ UNCHANGED <<stock, decs, mp, cr, now, emailsSent, poll, page, sideVars>>

\* updateError: logged, the loop goes on
SweepStampFail(s) ==
  /\ sweep[s].pc = "stamp"
  /\ sweep' = [sweep EXCEPT ![s] = SweepAdvance(sweep[s])]
  /\ UNCHANGED <<storeVars, now, emailsSent, poll, page, sideVars>>

SweepStamp(s) == SweepStampOk(s) \/ SweepStampFail(s)

\* time passes
Tick ==
  /\ now < MaxTime
  /\ now' = now + 1
  /\ UNCHANGED <<storeVars, sweep, emailsSent, poll, page, sideVars>>

\* ====================================================================
\* components/CustomBTCPayCheckout.tsx: the payment screen
\* ====================================================================
InFlightTotal == poll.inflight[TRUE] + poll.inflight[FALSE]

\* useState initial values: status "new", timeLeft 900 (here MaxCountdown),
\* completionTriggered false
PollUnmounted ==
  [mounted |-> FALSE, status |-> "new", timeLeft |-> MaxCountdown,
   completionTriggered |-> FALSE, interval |-> FALSE,
   timerInterval |-> FALSE, closure |-> FALSE,
   inflight |-> [c \in BOOLEAN |-> 0], onCompleteCalls |-> 0,
   invoice |-> "New"]

\* data.status === "Settled" || data.status === "Processing"
IsComplete(status) == status \in {"Settled", "Processing"}

\* (terminal status) && !completionTriggered, with completionTriggered the
\* value the callback captured when it was created
ShouldComplete(status, captured) == IsComplete(status) /\ ~captured

\* the effect body: fetchInvoiceStatus() at once, then every 5 seconds, both
\* through the callback created by the render that ran the effect
RunEffect(p, captured) ==
  [p EXCEPT !.interval = TRUE, !.timerInterval = TRUE, !.closure = captured,
            !.inflight[captured] = @ + 1]

\* the component mounts: first render, the effect runs
PollMount ==
  /\ poll = [PollUnmounted EXCEPT !.invoice = poll.invoice]
  /\ poll' = RunEffect([poll EXCEPT !.mounted = TRUE], poll.completionTriggered)
  /\ UNCHANGED <<storeVars, sweepVars, page, sideVars>>

\* setInterval(() => fetchInvoiceStatus(), 5000) fires
PollIntervalFire ==
  /\ poll.interval
  /\ InFlightTotal < MaxInFlight
  /\ poll' = [poll EXCEPT !.inflight[poll.closure] = @ + 1]
  /\ UNCHANGED <<storeVars, sweepVars, page, sideVars>>

\* setInterval(() => setTimeLeft(prev => Math.max(0, prev - 1)), 1000) fires
PollTimerFire ==
  /\ poll.timerInterval
  /\ poll' = [poll EXCEPT !.timeLeft = Max(0, @ - 1)]
  /\ UNCHANGED <<storeVars, sweepVars, page, sideVars>>

\* Math.max(0, Math.floor(data.expirationTime - now))
TimeRemaining(raw) == Max(0, raw)

\* a status fetch created with completionTriggered = captured gets its
\* response: the body of fetchInvoiceStatus after the await.  State setters
\* act only while the component is mounted; a change of completionTriggered
\* re-creates fetchInvoiceStatus, so the effect is cleaned up and run again.
PollFetchResolve(captured, remaining) ==
  /\ poll.inflight[captured] > 0
  /\ LET landed == [poll EXCEPT !.inflight[captured] = @ - 1]
         fire == ShouldComplete(poll.invoice, captured)
         called == IF fire THEN [landed EXCEPT !.onCompleteCalls = Bump(@)]
                   ELSE landed
         set == [called EXCEPT !.status = poll.invoice,
                               !.timeLeft = TimeRemaining(remaining),
                               !.completionTriggered = @ \/ fire]
     IN
     \/ /\ poll.mounted
        /\ poll' = IF set.completionTriggered # poll.completionTriggered
                     THEN RunEffect(set, TRUE)
                     ELSE set
     \/ /\ ~poll.mounted
        /\ poll' = called
     \/ \* !response.ok or a rejected fetch: caught and logged
        /\ poll' = landed
  /\ UNCHANGED <<storeVars, sweepVars, page, sideVars>>

\* the parent renders again: onComplete is a new function, fetchInvoiceStatus
\* is re-created with the current state and the effect runs again
PollParentRender ==
  /\ poll.mounted
  /\ InFlightTotal < MaxInFlight
  /\ poll' = RunEffect(poll, poll.completionTriggered)
  /\ UNCHANGED <<storeVars, sweepVars, page, sideVars>>

\* the effect's cleanup on unmount: clearInterval for both intervals
PollUnmountKeepsTimer ==
  /\ poll.mounted
  /\ poll' = [poll EXCEPT !.mounted = FALSE, !.interval = FALSE]
  /\ UNCHANGED <<storeVars, sweepVars, page, sideVars>>
PollUnmount ==
  /\ poll.mounted
  /\ poll' = [poll EXCEPT !.mounted = FALSE, !.interval = FALSE,
                          !.timerInterval = FALSE]
  /\ UNCHANGED <<storeVars, sweepVars, page, sideVars>>

\* the payment processor moves the invoice on
InvoiceAdvance ==
  /\ \E next \in {"Processing", "Settled", "Expired"} :
       /\ \/ poll.invoice = "New"
          \/ poll.invoice = "Processing" /\ next = "Settled"
       /\ poll' = [poll EXCEPT !.invoice = next]
  /\ UNCHANGED <<storeVars, sweepVars, page, sideVars>>

\* ====================================================================
\* app/checkout/page.tsx: the checkout page
\* ====================================================================
\* useState / useRef initial values of a page session (paymentShown records
\* that a payment screen was rendered, whose fetches may still call onComplete)
PageFresh(hasEmail, hasCoupon) ==
  [mounted |-> TRUE, hasEmail |-> hasEmail, hasCoupon |-> hasCoupon,
   isProcessing |-> FALSE, hc |-> "idle",
   orderId |-> "null", orderNumber |-> "null", invoiceId |-> "null",
   showPayment |-> FALSE, paymentShown |-> FALSE,
   paymentProcessedRef |-> FALSE,
   hpc |-> [h \in Handlers |-> "idle"],
   markPaidRequests |-> 0, emailRequests |-> 0, clearCartCalls |-> 0,
   navigations |-> 0, toast |-> "none"]

\* the request the page sends to POST /api/orders/create
CheckoutRequest(p) ==
  Request(<<Item("p1", 100, 1, <<>>)>>, 100, 0, 0,
          IF p.hasEmail THEN "set" ELSE "null")

\* handleCheckout: the address is complete, POST /api/orders/create is sent
HandleCheckoutStart ==
  /\ page.mounted /\ ~page.isProcessing /\ ~page.showPayment
  /\ page.hc = "idle"
  /\ Len(orders) < MaxCheckoutOrders
  /\ page' = [page EXCEPT !.isProcessing = TRUE, !.hc = "awaitOrder"]
  /\ UNCHANGED <<storeVars, sweepVars, poll, sideVars>>

\* the toast / catch / finally path of handleCheckout
CheckoutAbortedNoFinally(p) == [p EXCEPT !.hc = "idle"]
CheckoutAborted(p) == [p EXCEPT !.hc = "idle", !.isProcessing = FALSE]

\* the order response: the order row was inserted and its id returned, or the
\* request was refused
HandleCheckoutOrderResponse ==
  /\ page.hc = "awaitOrder"
  /\ \/ /\ orders' = Append(orders, NewOrderRow(CheckoutRequest(page)))
        /\ decs' = Append(decs, [i \in {1} |-> 0])
        /\ page' = [page EXCEPT !.orderId = "set", !.orderNumber = "set",
                      !.hc = IF page.hasCoupon /\ page.hasEmail
                               THEN "awaitCoupon" ELSE "awaitInvoice"]
     \/ \* !orderResponse.ok (stock, 429, other) or a rejected fetch
        /\ page' = [CheckoutAborted(page) EXCEPT !.toast = "order_failed"]
        /\ UNCHANGED <<orders, decs>>
  /\ UNCHANGED <<stock, mp, cr, sweepVars, poll, sideVars>>

\* await fetch("/api/coupons/apply"): the response is not looked at
HandleCheckoutCouponSettled ==
  /\ page.hc = "awaitCoupon"
  /\ \/ page' = [page EXCEPT !.hc = "awaitInvoice"]
     \/ \* the fetch rejected
        page' = [CheckoutAborted(page) EXCEPT !.toast = "fetch_failed"]
  /\ UNCHANGED <<storeVars, sweepVars, poll, sideVars>>

\* the response of POST /api/btcpay/create-invoice
HandleCheckoutInvoiceResponse ==
  /\ page.hc = "awaitInvoice"
  /\ \/ page' = [page EXCEPT !.hc = "awaitLink"]
     \/ \* !invoiceResponse.ok: throw new Error("Failed to create invoice")
        page' = [CheckoutAborted(page) EXCEPT !.toast = "failed_to_create_invoice"]
     \/ \* the fetch rejected
        page' = [CheckoutAborted(page) EXCEPT !.toast = "fetch_failed"]
  /\ UNCHANGED <<storeVars, sweepVars, poll, sideVars>>

\* await fetch("/api/orders/update-invoice"): the response is not looked at;
\* then setInvoiceId, setShowPayment(true)
HandleCheckoutLinkSettled ==
  /\ page.hc = "awaitLink"
  /\ \/ \* 200: the route stored btcpay_invoice_id on the order
        /\ orders' = [orders EXCEPT ![Len(orders)].btcpay_invoice_id = "set"]
        /\ page' = [CheckoutAborted(page) EXCEPT !.invoiceId = "set",
                                                !.showPayment = TRUE,
                                                !.paymentShown = TRUE]
     \/ \* an error response (400, 429, 500): the order is not updated
        /\ UNCHANGED orders
        /\ page' = [CheckoutAborted(page) EXCEPT !.invoiceId = "set",
                                                !.showPayment = TRUE,
                                                !.paymentShown = TRUE]
     \/ \* the fetch rejected
        /\ UNCHANGED orders
        /\ page' = [CheckoutAborted(page) EXCEPT !.toast = "fetch_failed"]
  /\ UNCHANGED <<stock, decs, mp, cr, sweepVars, poll, sideVars>>

\* handleCancelPayment
HandleCancelPayment ==
  /\ page.mounted /\ page.showPayment
  /\ page' = [page EXCEPT !.showPayment = FALSE, !.invoiceId = "null"]
  /\ UNCHANGED <<storeVars, sweepVars, poll, sideVars>>

\* if (paymentProcessedRef.current) return; paymentProcessedRef.current = true
AlreadyProcessedNoGuard(ref) == FALSE
AlreadyProcessed(ref) == ref

\* handlePaymentComplete is called (by the payment screen's onComplete): the
\* guard, then the mark-paid request is sent when an order id is held
HandlePaymentCompleteEnter(h) ==
  /\ page.paymentShown
  /\ page.hpc[h] = "idle"
  /\ IF AlreadyProcessed(page.paymentProcessedRef)
       THEN page' = [page EXCEPT !.hpc[h] = "returned"]
       ELSE IF page.orderId # "null"
         THEN page' = [page EXCEPT !.paymentProcessedRef = TRUE,
                         !.hpc[h] = "awaitMarkPaid",
                         !.markPaidRequests = Bump(@)]
         ELSE page' = [page EXCEPT !.paymentProcessedRef = TRUE,
                         !.hpc[h] = "finish"]
  /\ UNCHANGED <<storeVars, sweepVars, poll, sideVars>>

\* await fetch("/api/orders/mark-paid") settles; the confirmation email is
\* requested if (shippingAddress.email && orderNumber)
HandlePaymentCompleteMarkPaidSettled(h) ==
  /\ page.hpc[h] = "awaitMarkPaid"
  /\ \/ IF page.hasEmail /\ page.orderNumber # "null"
          THEN page' = [page EXCEPT !.hpc[h] = "awaitEmail",
                          !.emailRequests = Bump(@)]
          ELSE page' = [page EXCEPT !.hpc[h] = "finish"]
     \/ \* the fetch rejected: the handler ends with the exception
        page' = [page EXCEPT !.hpc[h] = "threw"]
  /\ UNCHANGED <<storeVars, sweepVars, poll, sideVars>>

\* await fetch("/api/email/order-confirmation") settles (a rejection is caught)
HandlePaymentCompleteEmailSettled(h) ==
  /\ page.hpc[h] = "awaitEmail"
  /\ page' = [page EXCEPT !.hpc[h] = "finish"]
  /\ UNCHANGED <<storeVars, sweepVars, poll, sideVars>>

\* clearCart(); router.push(order confirmation) or setPaymentComplete(true)
HandlePaymentCompleteFinish(h) ==
  /\ page.hpc[h] = "finish"
  /\ page' = [page EXCEPT !.hpc[h] = "done",
                !.clearCartCalls = Bump(@),
                !.navigations = IF page.orderId # "null" THEN Bump(@) ELSE @,
                !.mounted = FALSE, !.showPayment = FALSE]
  /\ UNCHANGED <<storeVars, sweepVars, poll, sideVars>>

\* ====================================================================
\* Coupons: validateCoupon, POST /api/coupons/validate, POST /api/coupons/apply
\* ====================================================================
\* an optional field is the empty set (null / undefined) or a singleton
ValueOf(v) == CHOOSE x \in v : TRUE

\* `field && ...` on an optional number: null and 0 are both falsy
TruthyNumber(v) == v # {} /\ v # {0}

Coupon(active, validFrom, validUntil, maxUses, currentUses, minimumOrder, applicableTo, productIds, discountType, discountValue, onePerCustomer) ==
  [active |-> active, valid_from |-> validFrom, valid_until |-> validUntil,
   max_uses |-> maxUses, current_uses |-> currentUses,
   minimum_order_amount |-> minimumOrder, applicable_to |-> applicableTo,
   product_ids |-> productIds, discount_type |-> discountType,
   discount_value |-> discountValue, one_per_customer |-> onePerCustomer]

CouponInvalid(error) == [valid |-> FALSE, error |-> error, discount |-> {}]
CouponValid(discount) == [valid |-> TRUE, error |-> "none", discount |-> {discount}]
NoCouponResult == [valid |-> FALSE, error |-> "none", discount |-> {}]

\* (orderTotal * coupon.discount_value) / 100, or coupon.discount_value
RawDiscount(coupon, orderTotal) ==
  IF coupon.discount_type = "percentage"
    THEN (orderTotal * coupon.discount_value) \div 100
    ELSE coupon.discount_value

\* Math.min(discount, orderTotal)
CapDiscountNoCap(discount, orderTotal) == discount
CapDiscount(discount, orderTotal) ==
  IF discount <= orderTotal THEN discount ELSE orderTotal

\* cartProductIds.some((id) => coupon.product_ids?.includes(id))
HasApplicableProduct(coupon, cartProductIds) ==
  \E id \in ValueOf(cartProductIds) : id \in ValueOf(coupon.product_ids)

\* validateCoupon(coupon, orderTotal, customerEmail, cartProductIds) at time t
ValidateCoupon(coupon, orderTotal, cartProductIds, t) ==
  IF ~coupon.active
    THEN CouponInvalid("not_active")
  ELSE IF t < coupon.valid_from
    THEN CouponInvalid("not_yet_valid")
  ELSE IF coupon.valid_until # {} /\ t > ValueOf(coupon.valid_until)
    THEN CouponInvalid("expired")
  ELSE IF TruthyNumber(coupon.max_uses)
          /\ coupon.current_uses >= ValueOf(coupon.max_uses)
    THEN CouponInvalid("usage_limit")
  ELSE IF TruthyNumber(coupon.minimum_order_amount)
          /\ orderTotal < ValueOf(coupon.minimum_order_amount)
    THEN CouponInvalid("minimum_order")
  ELSE IF coupon.applicable_to = "specific" /\ coupon.product_ids # {}
          /\ cartProductIds # {}
          /\ ~HasApplicableProduct(coupon, cartProductIds)
    THEN CouponInvalid("not_applicable")
  ELSE CouponValid(CapDiscount(RawDiscount(coupon, orderTotal), orderTotal))

\* the coupon row, the number of coupon_usage rows for (coupon id, the
\* customer's email), and the validation request in progress
CpnWith(coupon, orderTotal, hasEmail, cartProductIds) ==
  [coupon |-> coupon, usage |-> 0, pc |-> "idle", orderTotal |-> orderTotal,
   hasEmail |-> hasEmail, cart |-> cartProductIds, result |-> NoCouponResult,
   \* observation: the apply route was called for the email, and what the
   \* request in progress found of that when it arrived
   applied |-> FALSE, usageAtStart |-> 0, appliedAtStart |-> FALSE]

\* the evaluator applied to the coupon and the order context held
EvaluateCoupon ==
  /\ cpn.pc = "idle"
  /\ cpn' = [cpn EXCEPT !.pc = "done",
               !.result = ValidateCoupon(cpn.coupon, cpn.orderTotal, cpn.cart, now)]
  /\ UNCHANGED <<storeVars, sweepVars, poll, page, shp, inv, guardVars>>

\* POST /api/coupons/validate: the body is read and the coupon row fetched
ValidateStart(orderTotal, hasEmail, cartProductIds) ==
  /\ cpn.pc = "idle"
  /\ LET req == [cpn EXCEPT !.orderTotal = orderTotal, !.hasEmail = hasEmail,
                            !.cart = cartProductIds, !.result = NoCouponResult,
                            !.usageAtStart = cpn.usage,
                            !.appliedAtStart = cpn.applied]
     IN \/ cpn' = IF orderTotal = 0
                    THEN [req EXCEPT !.pc = "done",
                                     !.result = CouponInvalid("required")]
                    ELSE IF cpn.coupon.one_per_customer /\ hasEmail
                      THEN [req EXCEPT !.pc = "usage"]
                      ELSE [req EXCEPT !.pc = "evaluate"]
        \/ \* result.error || !result.data: 404 "Invalid coupon code"
           /\ orderTotal # 0
           /\ cpn' = [req EXCEPT !.pc = "done",
                                 !.result = CouponInvalid("invalid_code")]
  /\ UNCHANGED <<storeVars, sweepVars, poll, page, shp, inv, guardVars>>

\* .single() on the coupon_usage rows: data only when exactly one row matches
SingleRow(rows) == rows = 1

\* the one-per-customer lookup: if (usageResult.data) 400 "already used"
ValidateUsageLookup ==
  /\ cpn.pc = "usage"
  /\ \/ cpn' = IF SingleRow(cpn.usage)
                 THEN [cpn EXCEPT !.pc = "done",
                                  !.result = CouponInvalid("already_used")]
                 ELSE [cpn EXCEPT !.pc = "evaluate"]
     \/ \* the query failed: data is null, the error is not looked at
        cpn' = [cpn EXCEPT !.pc = "evaluate"]
  /\ UNCHANGED <<storeVars, sweepVars, poll, page, shp, inv, guardVars>>

\* validateCoupon is called and its result returned
ValidateEvaluate ==
  /\ cpn.pc = "evaluate"
  /\ cpn' = [cpn EXCEPT !.pc = "done",
               !.result = ValidateCoupon(cpn.coupon, cpn.orderTotal, cpn.cart, now)]
  /\ UNCHANGED <<storeVars, sweepVars, poll, page, shp, inv, guardVars>>

\* the response is delivered
ValidateReturn ==
  /\ cpn.pc = "done"
  /\ cpn' = [cpn EXCEPT !.pc = "idle"]
  /\ UNCHANGED <<storeVars, sweepVars, poll, page, shp, inv, guardVars>>

\* POST /api/coupons/apply for the customer's email: current_uses is
\* incremented (by the RPC or by the manual update) unless both fail, and a
\* coupon_usage row is inserted unless the insert fails (logged)
ApplyCoupon ==
  /\ cpn.coupon.current_uses < MaxCouponUses
  /\ \E incremented \in BOOLEAN : \E recorded \in BOOLEAN :
       cpn' = [cpn EXCEPT
                 !.coupon.current_uses = IF incremented THEN @ + 1 ELSE @,
                 !.usage = IF recorded THEN Bump(@) ELSE @,
                 !.applied = TRUE]
  /\ UNCHANGED <<storeVars, sweepVars, poll, page, shp, inv, guardVars>>

\* ====================================================================
\* POST /api/shipping/calculate
\* ====================================================================
\* v ?? d
OrElse(v, d) == IF v = {} THEN d ELSE ValueOf(v)

\* property names every plain object inherits from Object.prototype
ObjectPrototypeKeys == {"constructor"}

ShippingConfig(mode, domesticRate, internationalRate, domesticCountries, countryRates, defaultRate) ==
  [mode |-> mode, domestic_rate |-> domesticRate,
   international_rate |-> internationalRate,
   domestic_countries |-> domesticCountries,
   country_rates |-> countryRates, default_rate |-> defaultRate]

NumberValue(n) == [kind |-> "number", value |-> n]
InheritedValue == [kind |-> "inherited", value |-> 0]
UndefinedValue == [kind |-> "undefined", value |-> 0]

\* countryRates[country]: an own entry of the table, a member inherited from
\* Object.prototype, or undefined
PropertyOf(table, country) ==
  IF country \in DOMAIN table THEN NumberValue(table[country])
  ELSE IF country \in ObjectPrototypeKeys THEN InheritedValue
  ELSE UndefinedValue

\* the value assigned to shippingCost
ShippingCost(config, country) ==
  IF config.mode = "basic"
    THEN IF country \in OrElse(config.domestic_countries, {"US"})
           THEN NumberValue(OrElse(config.domestic_rate, 0))
           ELSE NumberValue(OrElse(config.international_rate, 0))
  ELSE IF config.mode = "advanced"
    THEN LET found == PropertyOf(OrElse(config.country_rates, <<>>), country) IN
           IF found.kind # "undefined" THEN found
           ELSE NumberValue(OrElse(config.default_rate, 0))
  ELSE NumberValue(0)

\* NextResponse.json({ shippingCost, country }): JSON.stringify leaves out a
\* member whose value is not serialisable (a function)
ShippingBody(cost, country) ==
  [status |-> 200, country |-> country,
   shippingCost |-> IF cost.kind = "number" THEN {cost.value} ELSE {}]

ShippingError(status) == [status |-> status, country |-> "", shippingCost |-> {}]
NoShippingResp == [status |-> 0, country |-> "", shippingCost |-> {}]

ShpWith(config) ==
  [config |-> config, pc |-> "idle", country |-> "", resp |-> NoShippingResp]

\* the handler: the body is read, the configuration row fetched, the rate
\* resolved
CalculateShipping(country) ==
  /\ shp.pc = "idle"
  /\ \/ shp' = [shp EXCEPT !.pc = "done", !.country = country,
                  !.resp = IF country = ""
                             THEN ShippingError(400)
                             ELSE ShippingBody(ShippingCost(shp.config, country),
                                               country)]
     \/ \* result.error || !result.data: 500
        /\ country # ""
        /\ shp' = [shp EXCEPT !.pc = "done", !.country = country,
                     !.resp = ShippingError(500)]
  /\ UNCHANGED <<storeVars, sweepVars, poll, page, cpn, inv, guardVars>>

\* the response is delivered
ShippingReturn ==
  /\ shp.pc = "done"
  /\ shp' = [shp EXCEPT !.pc = "idle", !.country = "", !.resp = NoShippingResp]
  /\ UNCHANGED <<storeVars, sweepVars, poll, page, cpn, inv, guardVars>>

\* ====================================================================
\* POST /api/btcpay/create-invoice
\* ====================================================================
\* the payment-method filter sent to BTCPay for the preferred cryptocurrency
\* ("unset": preferredCrypto is undefined)
PaymentMethods(preferredCrypto) ==
  IF preferredCrypto = "monero" THEN <<"XMR">>
  ELSE IF preferredCrypto = "bitcoin" THEN <<"BTC">>
  ELSE <<"BTC", "XMR">>

NoInvoiceResp == [status |-> 0, invoiceId |-> "null"]

InvIdle ==
  [pc |-> "idle", amount |-> 0, currency |-> "", hasBuyerEmail |-> FALSE,
   preferredCrypto |-> "unset", paymentMethods |-> <<>>, resp |-> NoInvoiceResp]

\* a request arrives (its body passed createInvoiceSchema): the rate limit,
\* the payment methods, the call to BTCPay
CreateInvoiceStart(amount, currency, hasBuyerEmail, preferredCrypto) ==
  /\ inv.pc = "idle"
  /\ LET req == [InvIdle EXCEPT !.amount = amount, !.currency = currency,
                   !.hasBuyerEmail = hasBuyerEmail,
                   !.preferredCrypto = preferredCrypto]
     IN \/ inv' = [req EXCEPT !.pc = "awaitBtcpay",
                     !.paymentMethods = PaymentMethods(preferredCrypto)]
        \/ \* !rateLimit.isAllowed
           inv' = [req EXCEPT !.pc = "done", !.resp.status = 429]
  /\ UNCHANGED <<storeVars, sweepVars, poll, page, cpn, shp, guardVars>>

\* BTCPay answered: the invoice, an error status passed on, or the call threw
CreateInvoiceBtcpayResponse ==
  /\ inv.pc = "awaitBtcpay"
  /\ \/ inv' = [inv EXCEPT !.pc = "done",
                  !.resp = [status |-> 200, invoiceId |-> "set"]]
     \/ \E status \in {400, 500} :
          inv' = [inv EXCEPT !.pc = "done", !.resp.status = status]
  /\ UNCHANGED <<storeVars, sweepVars, poll, page, cpn, shp, guardVars>>

\* the response is delivered
CreateInvoiceReturn ==
  /\ inv.pc = "done"
  /\ inv' = InvIdle
  /\ UNCHANGED <<storeVars, sweepVars, poll, page, cpn, shp, guardVars>>

\* ====================================================================
\* lib/security/rate-limiter.ts
\* ====================================================================
\* the limiter's time is counted in minutes
RateLimitPresets ==
  [LOGIN |-> [windowMs |-> 15, maxRequests |-> 5],
   ADMIN |-> [windowMs |-> 1, maxRequests |-> 20],
   ORDER_CREATE |-> [windowMs |-> 1, maxRequests |-> 6],
   API |-> [windowMs |-> 1, maxRequests |-> 60],
   PUBLIC |-> [windowMs |-> 1, maxRequests |-> 100]]

PresetNames == DOMAIN RateLimitPresets

\* values of getClientId
ClientKeys == {"k1", "k2"}

\* the answer of check
RateLimitResult(key, preset, isAllowed, remaining, resetTime) ==
  [key |-> key, preset |-> preset, isAllowed |-> isAllowed,
   remaining |-> remaining, resetTime |-> resetTime]

\* new Map(); allowed and asked are observations: the allowed checks per key
\* and minute, the checks per key and preset
RlIdle ==
  [now |-> 0,
   store |-> [k \in ClientKeys |-> {}],
   last |-> RateLimitResult("", "", FALSE, 0, 0),
   checks |-> 0,
   allowed |-> [k \in ClientKeys |-> [t \in 0..MaxRateTime |-> 0]],
   asked |-> [k \in ClientKeys |-> [p \in PresetNames |-> 0]]]

\* now > entry.resetTime
Expired(entry, t) == t > entry.resetTime

\* entry.count < config.maxRequests
UnderLimitOffByOne(count, maxRequests) == count <= maxRequests
UnderLimit(count, maxRequests) == count < maxRequests

\* rateLimiter.check(key, config)
RateLimiterCheck(key, preset) ==
  /\ rl.checks < MaxChecks
  /\ LET config == RateLimitPresets[preset]
         entry == rl.store[key]
         asked == [rl EXCEPT !.checks = @ + 1, !.asked[key][preset] = @ + 1]
         passed == [asked EXCEPT !.allowed[key][rl.now] = @ + 1]
     IN IF entry = {} \/ Expired(ValueOf(entry), rl.now)
          THEN LET resetTime == rl.now + config.windowMs IN
               rl' = [passed EXCEPT
                        !.store[key] = {[count |-> 1, resetTime |-> resetTime]},
                        !.last = RateLimitResult(key, preset, TRUE,
                                                 config.maxRequests - 1, resetTime)]
          ELSE IF UnderLimit(ValueOf(entry).count, config.maxRequests)
            THEN LET count == ValueOf(entry).count + 1 IN
                 rl' = [passed EXCEPT
                          !.store[key] = {[ValueOf(entry) EXCEPT !.count = count]},
                          !.last = RateLimitResult(key, preset, TRUE,
                                                   config.maxRequests - count,
                                                   ValueOf(entry).resetTime)]
            ELSE rl' = [asked EXCEPT
                          !.last = RateLimitResult(key, preset, FALSE, 0,
                                                   ValueOf(entry).resetTime)]
  /\ UNCHANGED <<storeVars, sweepVars, poll, page, cpn, shp, inv, chk>>

\* cleanup, called every minute by the interval of the constructor
RateLimiterCleanup ==
  /\ rl' = [rl EXCEPT !.store =
              [k \in ClientKeys |->
                 IF rl.store[k] # {} /\ Expired(ValueOf(rl.store[k]), rl.now)
                   THEN {} ELSE rl.store[k]]]
  /\ UNCHANGED <<storeVars, sweepVars, poll, page, cpn, shp, inv, chk>>

\* Date.now() moves on
RateTick ==
  /\ rl.now < MaxRateTime
  /\ rl' = [rl EXCEPT !.now = @ + 1]
  /\ UNCHANGED <<storeVars, sweepVars, poll, page, cpn, shp, inv, chk>>

\* ====================================================================
\* Checkouts that use a coupon: handleApplyCoupon, then handleCheckout
\* ====================================================================
Sessions == {"c1", "c2"}

ChkWith(emails) ==
  [c \in Sessions |-> [pc |-> "idle", hasEmail |-> emails[c]]]

ChkIdle == ChkWith([c \in Sessions |-> FALSE])

\* the order subtotal and the cart of a session
SessionTotal == 10000
SessionCart == {{"p1"}}

\* handleApplyCoupon: POST /api/coupons/validate answers for the coupon row
\* as it is now; setAppliedCoupon when the answer is valid
SessionApplyCoupon(c) ==
  /\ chk[c].pc = "idle"
  /\ chk' = [chk EXCEPT ![c].pc =
               IF ValidateCoupon(cpn.coupon, SessionTotal, SessionCart, now).valid
                 THEN "validated" ELSE "refused"]
  /\ UNCHANGED <<storeVars, sweepVars, poll, page, cpn, shp, inv, rl>>

\* handleCheckout, step 1: POST /api/orders/create with couponCode and
\* couponDiscount; the route stores them as sent
SessionCreateOrder(c) ==
  /\ chk[c].pc = "validated"
  /\ chk' = [chk EXCEPT ![c].pc = "ordered"]
  /\ UNCHANGED <<storeVars, sweepVars, poll, page, cpn, shp, inv, rl>>

\* handleCheckout: if (appliedCoupon && shippingAddress.email)
\* POST /api/coupons/apply
SessionRecordUsage(c) ==
  /\ chk[c].pc = "ordered"
  /\ chk[c].hasEmail
  /\ chk' = [chk EXCEPT ![c].pc = "applied"]
  /\ \E incremented \in BOOLEAN : \E recorded \in BOOLEAN :
       cpn' = [cpn EXCEPT
                 !.coupon.current_uses = IF incremented THEN @ + 1 ELSE @,
                 !.usage = IF recorded THEN Bump(@) ELSE @,
                 !.applied = TRUE]
  /\ UNCHANGED <<storeVars, sweepVars, poll, page, shp, inv, rl>>

\* the orders created with the coupon
CouponOrders ==
  Cardinality({ c \in Sessions : chk[c].pc \in {"ordered", "applied"} })

\* ====================================================================
\* Idle values of the parts a specification leaves alone
\* ====================================================================
SweepIdle == [pc |-> "idle", selected |-> <<>>, idx |-> 0]
PollIdle == PollUnmounted
PageIdle == [PageFresh(FALSE, FALSE) EXCEPT !.mounted = FALSE]
CpnIdle ==
  CpnWith(Coupon(TRUE, 0, {}, {}, 0, {}, "all", {}, "fixed", 0, FALSE),
          0, FALSE, {})
ShpIdle == ShpWith(ShippingConfig("basic", {0}, {0}, {{"US"}}, {<<>>}, {0}))

GuardInit ==
  /\ rl = RlIdle
  /\ chk = ChkIdle

SideInit ==
  /\ cpn = CpnIdle
  /\ shp = ShpIdle
  /\ inv = InvIdle
  /\ GuardInit

StoreInit ==
  /\ stock = [p \in ProductIds |-> MaxStock]
  /\ orders = <<>>
  /\ decs = <<>>
  /\ mp = [r \in MarkPaidReqs |-> MpIdle]
  /\ cr = CrIdle

SweepInit ==
  /\ now = 0
  /\ sweep = [s \in SweepRuns |-> SweepIdle]
  /\ emailsSent = <<0>>

\* ====================================================================
\* Spec: the order store under order creation, settlement and the admin
\* ====================================================================
\* the order ids of this specification
LifecycleOrders == {1}

\* the carts of this specification, each sent with the total the checkout
\* page computes for it
LifecycleCarts ==
  { <<Item("p1", 100, 1, <<>>)>>,
    <<Item("p1", 100, 2, <<>>), Item("p2", 100, 1, <<>>)>> }

LifecycleReqs ==
  { Request(c, CalculatedTotal(c, 0, 0), 0, 0, "null") : c \in LifecycleCarts }

Init ==
  /\ StoreInit
  /\ SweepInit
  /\ poll = PollIdle
  /\ page = PageIdle
  /\ SideInit

CreateOrder ==
  \/ CreateOrderStart(LifecycleReqs, LifecycleOrders)
  \/ CreateOrderCheckStock
  \/ CreateOrderInsert

MarkPaid ==
  \E r \in MarkPaidReqs :
    \/ \E o \in OrderIds \cup {NoOrder} : MarkPaidFetchOrder(r, o)
    \/ MarkPaidReadStock(r)
    \/ MarkPaidWriteStock(r)
    \/ MarkPaidUpdateStatus(r)

Admin ==
  \/ \E o \in OrderIds : \E s \in Statuses : updateOrderStatus(o, s)
  \/ \E o \in OrderIds : markAsShipped(o)
  \/ \E p \in ProductIds : \E v \in 0..MaxStock : handleSubmit(p, v)

Next == CreateOrder \/ MarkPaid \/ Admin

Spec == Init /\ [][Next]_vars

\* ====================================================================
\* SpecSweep: paid orders, the admin marking them shipped, and sweep runs
\* ====================================================================
\* a paid order as creation and settlement leave it
PaidRow(email) ==
  [NewOrderRow(Request(<<Item("p1", 100, 1, <<>>)>>, 100, 0, 0, email))
     EXCEPT !.status = "paid", !.paid_at = TRUE]

InitSweep ==
  /\ stock = [p \in ProductIds |-> MaxStock]
  /\ orders \in { <<PaidRow("set"), PaidRow(e)>> : e \in {"set", "null"} }
  /\ decs = <<[i \in {1} |-> 1], [i \in {1} |-> 1]>>
  /\ mp = [r \in MarkPaidReqs |-> MpIdle]
  /\ cr = CrIdle
  /\ now = 0
  /\ sweep = [s \in SweepRuns |-> SweepIdle]
  /\ emailsSent = <<0, 0>>
  /\ poll = PollIdle
  /\ page = PageIdle
  /\ SideInit

Sweep ==
  \E s \in SweepRuns : SweepSelect(s) \/ SweepSend(s) \/ SweepStamp(s)

Ship == \E o \in OrderIds : markAsShipped(o)

NextSweep == Sweep \/ Ship \/ Tick

SpecSweep == InitSweep /\ [][NextSweep]_vars

\* the sweep as a scheduled job: a run is started again and again, a started
\* run goes on to its end, and the datastore and the mail API do not fail
\* forever
SweepOrders == 1..2

SweepFairness ==
  \A s \in SweepRuns :
    /\ WF_vars(SweepSelect(s)) /\ SF_vars(SweepSelectOk(s))
    /\ WF_vars(SweepSend(s)) /\ SF_vars(SweepSendOk(s))
    /\ WF_vars(SweepStamp(s)) /\ SF_vars(SweepStampOk(s))

SpecSweepFair == InitSweep /\ [][NextSweep]_vars /\ SweepFairness

\* ====================================================================
\* SpecPoller: one payment screen and the invoice it watches
\* ====================================================================
InitPoller ==
  /\ StoreInit
  /\ SweepInit
  /\ poll = PollUnmounted
  /\ page = PageIdle
  /\ SideInit

NextPoller ==
  \/ PollMount
  \/ PollIntervalFire
  \/ PollTimerFire
  \/ \E c \in BOOLEAN : \E t \in -1..MaxCountdown : PollFetchResolve(c, t)
  \/ PollParentRender
  \/ PollUnmount
  \/ InvoiceAdvance

SpecPoller == InitPoller /\ [][NextPoller]_vars

\* ====================================================================
\* SpecCheckout: one session of the checkout page
\* ====================================================================
InitCheckout ==
  /\ StoreInit
  /\ SweepInit
  /\ poll = PollIdle
  /\ page \in { PageFresh(e, c) : e \in BOOLEAN, c \in BOOLEAN }
  /\ SideInit

HandleCheckout ==
  \/ HandleCheckoutStart
  \/ HandleCheckoutOrderResponse
  \/ HandleCheckoutCouponSettled
  \/ HandleCheckoutInvoiceResponse
  \/ HandleCheckoutLinkSettled
  \/ HandleCancelPayment

HandlePaymentComplete ==
  \E h \in Handlers :
    \/ HandlePaymentCompleteEnter(h)
    \/ HandlePaymentCompleteMarkPaidSettled(h)
    \/ HandlePaymentCompleteEmailSettled(h)
    \/ HandlePaymentCompleteFinish(h)

NextCheckout == HandleCheckout \/ HandlePaymentComplete

SpecCheckout == InitCheckout /\ [][NextCheckout]_vars

\* ====================================================================
\* SpecCreate: order creation over priced carts
\* ====================================================================
Prices == {100, 2000}
Quantities == {1, 3, 5}
ModifierLists == {<<>>, <<500>>}
ShippingCosts == {0, 1000}
CouponDiscounts == {0, 500}
StockLevels == {0, 2, 3}
CreateOrders == {1}

\* the coupons table holds one row, a 10% coupon with code SAVE10; requests
\* carry no code, that code, or a code no row has
CreateCouponCode == "SAVE10"
CreateCoupon ==
  Coupon(TRUE, 0, {}, {}, 0, {}, "all", {}, "percentage", 10, FALSE)
CouponCodes == {"null", CreateCouponCode, "NOPE"}

\* products.price of the rows of the products table
CatalogPrice == [p \in ProductIds |-> 2000]

CreateItems ==
  { Item(id, price, q, mods) :
      id \in ProductIds \cup {MissingProduct}, price \in Prices,
      q \in Quantities, mods \in ModifierLists }

\* second line items
CreateSecondItems == { i \in CreateItems : i.price = 2000 /\ i.quantity # 5 }

CreateCarts ==
  { <<a>> : a \in CreateItems } \cup
  { <<a, b>> : a \in CreateSecondItems, b \in CreateSecondItems }

\* the client's total: the true total, off by up to Tolerance + 1 either way
\* (createOrderSchema: totalAmount is positive)
CreateReqs ==
  { req \in
      { WithCouponCode(Request(c, CalculatedSubtotal(c) + sh - d + off, sh, d, "null"),
                       code) :
          c \in CreateCarts, sh \in ShippingCosts, d \in CouponDiscounts,
          off \in (0 - Tolerance - 1)..(Tolerance + 1), code \in CouponCodes } :
      req.totalAmount > 0 }

InitCreate ==
  /\ stock \in [ProductIds -> StockLevels]
  /\ orders = <<>>
  /\ decs = <<>>
  /\ mp = [r \in MarkPaidReqs |-> MpIdle]
  /\ cr = CrIdle
  /\ SweepInit
  /\ poll = PollIdle
  /\ page = PageIdle
  /\ cpn = CpnWith(CreateCoupon, 0, FALSE, {})
  /\ shp = ShpIdle
  /\ inv = InvIdle
  /\ GuardInit

NextCreate ==
  \/ CreateOrderStart(CreateReqs, CreateOrders)
  \/ CreateOrderCheckStock
  \/ CreateOrderInsert
  \/ CreateOrderReturn

SpecCreate == InitCreate /\ [][NextCreate]_vars

\* ====================================================================
\* SpecCouponEval: the coupon evaluator over coupons and order contexts
\* ====================================================================
CouponNow == 1

\* (valid_from, valid_until)
CouponWindows == { <<0, {}>>, <<2, {}>>, <<0, {0}>>, <<0, {2}>>, <<2, {0}>> }
\* (max_uses, current_uses)
CouponUses == { <<{}, 0>>, <<{0}, 0>>, <<{1}, 0>>, <<{1}, 1>>, <<{2}, 1>> }
CouponMinimums == { {}, {5000} }
\* (applicable_to, product_ids)
CouponScopes ==
  { <<"all", {}>>, <<"all", {{"p1"}}>>, <<"specific", {}>>,
    <<"specific", {{}}>>, <<"specific", {{"p1"}}>> }
\* (discount_type, discount_value)
CouponDiscountKinds ==
  { <<"percentage", 10>>, <<"percentage", 150>>, <<"fixed", 500>>,
    <<"fixed", 20000>> }
OrderTotals == {4000, 10000}
CartProductIds == { {}, {{}}, {{"p1"}}, {{"p2"}} }

EvalCoupons ==
  { Coupon(a, w[1], w[2], u[1], u[2], m, sc[1], sc[2], d[1], d[2], FALSE) :
      a \in BOOLEAN, w \in CouponWindows, u \in CouponUses,
      m \in CouponMinimums, sc \in CouponScopes, d \in CouponDiscountKinds }

InitCouponEval ==
  /\ StoreInit
  /\ now = CouponNow
  /\ sweep = [s \in SweepRuns |-> SweepIdle]
  /\ emailsSent = <<0>>
  /\ poll = PollIdle
  /\ page = PageIdle
  /\ cpn \in { CpnWith(c, t, FALSE, ids) :
                 c \in EvalCoupons, t \in OrderTotals, ids \in CartProductIds }
  /\ shp = ShpIdle
  /\ inv = InvIdle
  /\ GuardInit

NextCouponEval == EvaluateCoupon

SpecCouponEval == InitCouponEval /\ [][NextCouponEval]_vars

\* ====================================================================
\* SpecCouponUse: one coupon, one customer email, validations and checkouts
\* ====================================================================
UseCoupons ==
  { Coupon(TRUE, 0, {}, u, 0, {}, "all", {}, "percentage", 10, o) :
      u \in { {}, {1} }, o \in BOOLEAN }

InitCouponUse ==
  /\ StoreInit
  /\ now = CouponNow
  /\ sweep = [s \in SweepRuns |-> SweepIdle]
  /\ emailsSent = <<0>>
  /\ poll = PollIdle
  /\ page = PageIdle
  /\ cpn \in { CpnWith(c, 0, FALSE, {}) : c \in UseCoupons }
  /\ shp = ShpIdle
  /\ inv = InvIdle
  /\ GuardInit

ValidateRoute ==
  \/ \E t \in OrderTotals \cup {0} : \E e \in BOOLEAN :
       \E ids \in { {}, {{"p1"}} } : ValidateStart(t, e, ids)
  \/ ValidateUsageLookup
  \/ ValidateEvaluate
  \/ ValidateReturn

NextCouponUse == ValidateRoute \/ ApplyCoupon

SpecCouponUse == InitCouponUse /\ [][NextCouponUse]_vars

\* ====================================================================
\* SpecShipping: the shipping resolver over configurations and countries
\* ====================================================================
Countries == {"US", "CA", "DE", "constructor", ""}
DomesticLists == { {}, {"US"}, {"US", "CA"} }
RateTables ==
  { <<>>, [c \in {"US"} |-> 700], [c \in {"US", "CA"} |-> IF c = "US" THEN 700 ELSE 0] }

ShippingConfigs ==
  { ShippingConfig(m, {500}, {i}, {l}, {t}, {d}) :
      m \in {"basic", "advanced"}, i \in {2000, 2500}, l \in DomesticLists,
      t \in RateTables, d \in {1500, 3000} }

InitShipping ==
  /\ StoreInit
  /\ SweepInit
  /\ poll = PollIdle
  /\ page = PageIdle
  /\ cpn = CpnIdle
  /\ shp \in { ShpWith(c) : c \in ShippingConfigs }
  /\ inv = InvIdle
  /\ GuardInit

NextShipping ==
  \/ \E country \in Countries : CalculateShipping(country)
  \/ ShippingReturn

SpecShipping == InitShipping /\ [][NextShipping]_vars

\* ====================================================================
\* SpecInvoice: invoice creation over the requests the schema admits
\* ====================================================================
Preferences == {"bitcoin", "monero", "unset"}
Amounts == {100, 9000}
Currencies == {"USD", "EUR"}

NextInvoice ==
  \/ \E a \in Amounts : \E c \in Currencies : \E e \in BOOLEAN :
       \E p \in Preferences : CreateInvoiceStart(a, c, e, p)
  \/ CreateInvoiceBtcpayResponse
  \/ CreateInvoiceReturn

SpecInvoice == Init /\ [][NextInvoice]_vars

\* ====================================================================
\* SpecSettle: one order awaiting payment, its invoice at the payment
\* processor, and mark-paid requests
\* ====================================================================
\* the order as the checkout page leaves it when the payment screen opens
AwaitingPaymentRow ==
  [NewOrderRow(Request(<<Item("p1", 100, 1, <<>>)>>, 100, 0, 0, "set"))
     EXCEPT !.btcpay_invoice_id = "set"]

InitSettle ==
  /\ stock = [p \in ProductIds |-> MaxStock]
  /\ orders = <<AwaitingPaymentRow>>
  /\ decs = <<[i \in {1} |-> 0]>>
  /\ mp = [r \in MarkPaidReqs |-> MpIdle]
  /\ cr = CrIdle
  /\ SweepInit
  /\ poll = PollIdle
  /\ page = PageIdle
  /\ SideInit

NextSettle == InvoiceAdvance \/ MarkPaid

SpecSettle == InitSettle /\ [][NextSettle]_vars

\* ====================================================================
\* SpecRace: orders for the same products created and settled concurrently
\* ====================================================================
RaceOrders == {1, 2}

InitRace == Init

NextRace ==
  \/ CreateOrderStart(LifecycleReqs, RaceOrders)
  \/ CreateOrderCheckStock
  \/ CreateOrderInsert
  \/ CreateOrderReturn
  \/ MarkPaid

SpecRace == InitRace /\ [][NextRace]_vars

\* ====================================================================
\* SpecRateLimit: the limiter with one preset per client key
\* ====================================================================
\* the preset each key is checked with
KeyPreset == [k \in ClientKeys |-> IF k = "k1" THEN "ORDER_CREATE" ELSE "LOGIN"]

NextRateLimit ==
  \/ \E k \in ClientKeys : RateLimiterCheck(k, KeyPreset[k])
  \/ RateLimiterCleanup
  \/ RateTick

SpecRateLimit == Init /\ [][NextRateLimit]_vars

\* ====================================================================
\* SpecRatePresets: one client calling endpoints limited by different presets
\* ====================================================================
\* the presets the routes pass with getClientId as the key
EndpointPresets == {"ORDER_CREATE", "API"}

NextRatePresets ==
  \/ \E p \in EndpointPresets : RateLimiterCheck("k1", p)
  \/ RateLimiterCleanup
  \/ RateTick

SpecRatePresets == Init /\ [][NextRatePresets]_vars

\* ====================================================================
\* SpecCouponRace: two checkouts using one coupon
\* ====================================================================
RaceCoupons ==
  { Coupon(TRUE, 0, {}, u, 0, {}, "all", {}, "percentage", 10, FALSE) :
      u \in { {}, {1}, {2} } }

InitCouponRace ==
  /\ StoreInit
  /\ now = CouponNow
  /\ sweep = [s \in SweepRuns |-> SweepIdle]
  /\ emailsSent = <<0>>
  /\ poll = PollIdle
  /\ page = PageIdle
  /\ cpn \in { CpnWith(c, 0, FALSE, {}) : c \in RaceCoupons }
  /\ shp = ShpIdle
  /\ inv = InvIdle
  /\ rl = RlIdle
  /\ chk \in { ChkWith(e) : e \in [Sessions -> BOOLEAN] }

NextCouponRace ==
  \E c \in Sessions :
    \/ SessionApplyCoupon(c)
    \/ SessionCreateOrder(c)
    \/ SessionRecordUsage(c)

SpecCouponRace == InitCouponRace /\ [][NextCouponRace]_vars

\* ====================================================================
\* Properties
\* ====================================================================

\* C1: for every order, over any sequence or interleaving of mark-paid
\* requests, each line item's quantity is subtracted from its product's stock
\* at most once.
C1_DecrementAtMostOnce ==
  \A o \in DOMAIN decs : \A i \in DOMAIN decs[o] : decs[o][i] <= 1

C3_OnCompleteOnce ==
  /\ poll.onCompleteCalls <= 1
  /\ poll.onCompleteCalls >= 1 => poll.invoice \in {"Settled", "Processing"}

\* C4: the mark-paid request, the confirmation-email request, clearing the
\* cart and the navigation each happen at most once per checkout page
\* session, however often handlePaymentComplete is invoked.
C4_SideEffectsAtMostOnce ==
  /\ page.markPaidRequests <= 1
  /\ page.emailRequests <= 1
  /\ page.clearCartCalls <= 1
  /\ page.navigations <= 1

\* C4 witness: the callback was invoked twice; one invocation ran all four
\* side effects, the other returned at the guard
C4_Witness ==
  \E h1 \in Handlers : \E h2 \in Handlers \ {h1} :
    /\ page.hpc[h1] = "done" /\ page.hpc[h2] = "returned"
    /\ page.markPaidRequests = 1 /\ page.emailRequests = 1
    /\ page.clearCartCalls = 1 /\ page.navigations = 1

\* the total the specification prescribes for a stored order or a request:
\* sum of (unit price + sum of modifier adjustments) x quantity, plus
\* shipping, minus coupon discount
RECURSIVE ExpectedSubtotal(_)
ExpectedSubtotal(items) ==
  IF items = <<>> THEN 0
  ELSE LET it == Head(items) IN
       (it.price + SumSeq(it.selectedModifiers)) * it.quantity
         + ExpectedSubtotal(Tail(items))

ExpectedTotal(items, shipping, discount) ==
  ExpectedSubtotal(items) + shipping - discount

WithinTolerance(a, b) == a - b <= Tolerance /\ b - a <= Tolerance

\* C5: an order is inserted only if the recomputed total is within 0.01 of
\* the client's total, a request whose total is further off is rejected
\* without an insert, and every stored order's total_amount agrees with its
\* items, shipping_cost and coupon_discount within 0.01.
C5_TotalValidated ==
  /\ [](\A o \in OrderIds :
          WithinTolerance(ExpectedTotal(orders[o].items, orders[o].shipping_cost,
                                        orders[o].coupon_discount),
                          orders[o].total_amount))
  /\ [](cr.pc = "done" =>
          LET req == cr.req
              ok == WithinTolerance(ExpectedTotal(req.items, req.shippingCost,
                                                  req.couponDiscount),
                                    req.totalAmount)
          IN /\ cr.resp.kind = "ok" => ok
             /\ ~ok => cr.resp.kind \in
                         {"not_found", "insufficient_stock", "total_mismatch"})
  /\ [][orders' # orders =>
          /\ cr.pc = "check" /\ cr'.pc = "done" /\ cr'.resp.kind = "ok"
          /\ orders' = Append(orders, orders'[Len(orders')])
          /\ orders'[Len(orders')].total_amount = cr.req.totalAmount
          /\ orders'[Len(orders')].items = cr.req.items
          /\ orders'[Len(orders')].shipping_cost = cr.req.shippingCost
          /\ orders'[Len(orders')].coupon_discount = cr.req.couponDiscount
          /\ orders'[Len(orders')].status = "pending"]_vars

\* C5 witness: price 20.00, quantity 3, one modifier +5.00: the order is
\* stored with line total (20+5) x 3 = 75.00, shipping 10.00, discount 5.00
C5_Witness ==
  /\ cr.pc = "done" /\ cr.resp.kind = "ok"
  /\ Len(orders) = 1
  /\ orders[1].items = <<Item("p1", 2000, 3, <<500>>)>>
  /\ orders[1].shipping_cost = 1000 /\ orders[1].coupon_discount = 500
  /\ orders[1].total_amount = 8000

\* the first line item whose product is missing or short of stock
BadItem(req, i) ==
  \/ req.items[i].id \notin DOMAIN stock
  \/ req.items[i].quantity > stock[req.items[i].id]

\* C6: when a line item's product is missing or its quantity exceeds the
\* product's stock the request is rejected at that item ("not found", or
\* "insufficient stock" with the product name and availableStock = the stock
\* read) and no order is inserted; nothing follows a failed validation.
C6_StockValidated ==
  /\ [](cr.pc = "done" /\ (\E i \in DOMAIN cr.req.items : BadItem(cr.req, i)) =>
          LET req == cr.req
              first == CHOOSE i \in DOMAIN req.items :
                         /\ BadItem(req, i)
                         /\ \A j \in 1..(i - 1) : ~BadItem(req, j)
              item == req.items[cr.idx]
          IN /\ cr.idx <= first
             /\ cr.resp.kind \in {"not_found", "insufficient_stock"}
             /\ cr.resp.orderId = NoOrder
             /\ cr.resp.kind = "insufficient_stock" =>
                  /\ cr.idx = first
                  /\ item.id \in DOMAIN stock
                  /\ cr.resp.productName = item.name
                  /\ cr.resp.availableStock = stock[item.id]
                  /\ cr.resp.availableStock < item.quantity
             /\ (cr.idx = first /\ item.id \in DOMAIN stock) =>
                  cr.resp.kind \in {"insufficient_stock", "not_found"}
             /\ (cr.idx = first /\ item.id \notin DOMAIN stock) =>
                  cr.resp.kind = "not_found")
  /\ [][orders' # orders =>
          \A i \in DOMAIN cr.req.items : ~BadItem(cr.req, i)]_vars
  /\ [][(cr.pc = "done" /\ cr.resp.kind # "ok") =>
          (orders' = orders /\ (cr' = cr \/ cr' = CrIdle))]_vars

\* C6 witness: stock 2, quantity 5: rejected with availableStock 2
C6_Witness ==
  /\ cr.pc = "done" /\ cr.resp.kind = "insufficient_stock"
  /\ cr.resp.availableStock = 2
  /\ cr.req.items[cr.idx].quantity = 5
  /\ cr.resp.productName = cr.req.items[cr.idx].name
  /\ orders = <<>>

\* C7: every product's stock is a non-negative integer in every reachable
\* state, and a settlement write stores max(0, stock read - quantity): 0
\* when the quantity exceeds the stock read.
C7_StockNeverNegative ==
  /\ [](\A p \in DOMAIN stock : stock[p] \in Nat)
  /\ [][\A r \in MarkPaidReqs :
          (mp[r].pc = "write" /\ mp'[r] # mp[r] /\ stock' # stock) =>
            LET item == mp[r].items[mp[r].idx] IN
              stock'[item.id] =
                IF item.quantity > mp[r].read THEN 0
                ELSE mp[r].read - item.quantity]_vars

\* C7 witness: a settlement is about to write the stock of a line item whose
\* quantity is larger than the positive stock it read
C7_Witness ==
  \E r \in MarkPaidReqs :
    /\ mp[r].pc = "write"
    /\ mp[r].read > 0
    /\ mp[r].items[mp[r].idx].quantity > mp[r].read
    /\ stock[mp[r].items[mp[r].idx].id] = mp[r].read

Rank(status) ==
  CASE status = "pending" -> 0
    [] status = "paid" -> 1
    [] status = "shipped" -> 2
    [] status = "delivered" -> 3
    [] status = "cancelled" -> 4

Forward(from, to) ==
  \/ to # "cancelled" /\ Rank(from) < Rank(to)
  \/ to = "cancelled" /\ from \in {"pending", "paid"}

\* C8: the stored status only moves forward along pending -> paid -> shipped
\* -> delivered, with cancelled entered only from pending or paid; no
\* operation moves an order back, or out of delivered or cancelled.
C8_StatusOnlyForward ==
  [][\A o \in OrderIds :
       orders'[o].status # orders[o].status =>
         Forward(orders[o].status, orders'[o].status)]_vars

\* C9: across any number of sweep runs each order's shipping-notification
\* email is sent at most once.
C9_EmailAtMostOnce ==
  \A o \in DOMAIN emailsSent : emailsSent[o] <= 1

\* C10: an email is sent only for an order that is due (scheduled_at at or
\* before now, tracking number and URL set), and once the send succeeded and
\* the run has moved on, sent_at is stamped, so that no later sweep selects
\* the order.
C10_SentIsStamped ==
  \A o \in OrderIds :
    emailsSent[o] >= 1 =>
      /\ orders[o].scheduled_at # {}
      /\ \A at \in orders[o].scheduled_at : at <= now
      /\ orders[o].tracking_number # "null"
      /\ orders[o].shipping_tracking_url # "null"
      /\ (\A s \in SweepRuns :
            ~(sweep[s].pc = "stamp" /\ sweep[s].selected[sweep[s].idx] = o))
           => (orders[o].sent_at # {} /\ ~Due(orders[o], now))

CartIntersects(coupon, cartProductIds) ==
  /\ coupon.product_ids # {}
  /\ cartProductIds # {}
  /\ ValueOf(coupon.product_ids) \cap ValueOf(cartProductIds) # {}

WindowOpen(coupon, t) ==
  /\ coupon.active
  /\ t >= coupon.valid_from
  /\ \A until \in coupon.valid_until : t <= until

FirstFailingCheck(coupon, orderTotal, cartProductIds, t) ==
  IF ~coupon.active THEN "not_active"
  ELSE IF ~(t >= coupon.valid_from) THEN "not_yet_valid"
  ELSE IF \E until \in coupon.valid_until : ~(t <= until) THEN "expired"
  ELSE IF \E max \in coupon.max_uses : ~(coupon.current_uses < max)
    THEN "usage_limit"
  ELSE IF \E min \in coupon.minimum_order_amount : ~(orderTotal >= min)
    THEN "minimum_order"
  ELSE IF coupon.applicable_to = "specific"
          /\ ~CartIntersects(coupon, cartProductIds)
    THEN "not_applicable"
  ELSE "none"

\* C12: the evaluator returns the error of the first failing check in the
\* order active, valid_from, valid_until, max_uses, minimum_order_amount,
\* product applicability (valid when none fails); an inactive coupon is
\* always invalid with the 'not active' error.
C12_ChecksInOrder ==
  cpn.pc = "done" =>
    /\ cpn.result.error =
         FirstFailingCheck(cpn.coupon, cpn.orderTotal, cpn.cart, now)
    /\ cpn.result.valid = (cpn.result.error = "none")
    /\ ~cpn.coupon.active =>
         (~cpn.result.valid /\ cpn.result.error = "not_active")

\* C13: a coupon that passes the checks yields the discount
\* min(subtotal x value / 100, subtotal) when it is a percentage coupon and
\* min(value, subtotal) when it is a fixed coupon, never more than the
\* subtotal.
C13_DiscountCapped ==
  (cpn.pc = "done" /\ cpn.result.valid) =>
    \E d \in cpn.result.discount :
      /\ cpn.result.discount = {d}
      /\ d <= cpn.orderTotal
      /\ IF cpn.coupon.discount_type = "percentage"
           THEN IF cpn.coupon.discount_value <= 100
                  THEN d * 100 = cpn.orderTotal * cpn.coupon.discount_value
                  ELSE d = cpn.orderTotal
           ELSE IF cpn.coupon.discount_value <= cpn.orderTotal
                  THEN d = cpn.coupon.discount_value
                  ELSE d = cpn.orderTotal

\* C13 witness: 10% with minimum order 50.00 on subtotal 100.00: discount
\* 10.00, total 90.00
C13_Witness ==
  /\ cpn.pc = "done" /\ cpn.result.valid
  /\ cpn.coupon.discount_type = "percentage" /\ cpn.coupon.discount_value = 10
  /\ cpn.coupon.minimum_order_amount = {5000}
  /\ cpn.orderTotal = 10000
  /\ cpn.result.discount = {1000}
  /\ cpn.orderTotal - ValueOf(cpn.result.discount) = 9000

\* C14: when max_uses is set (0 included) and current_uses is not below it,
\* a coupon inside its validity window is invalid with the 'usage limit'
\* error.
C14_UsageLimit ==
  ( /\ cpn.pc = "done"
    /\ WindowOpen(cpn.coupon, now)
    /\ \E max \in cpn.coupon.max_uses : cpn.coupon.current_uses >= max )
  => (~cpn.result.valid /\ cpn.result.error = "usage_limit")

\* C15: a coupon whose applicability is 'specific' is valid only if some cart
\* product id is in its product id set; when none is (no intersection, no
\* cart ids supplied, no product id set) and no earlier check fails it is
\* invalid with the 'not applicable' error.
C15_SpecificNeedsIntersection ==
  (cpn.pc = "done" /\ cpn.coupon.applicable_to = "specific") =>
    /\ cpn.result.valid => CartIntersects(cpn.coupon, cpn.cart)
    /\ ( /\ ~CartIntersects(cpn.coupon, cpn.cart)
         /\ cpn.result.error \notin
              {"not_active", "not_yet_valid", "expired", "usage_limit",
               "minimum_order"} )
       => (~cpn.result.valid /\ cpn.result.error = "not_applicable")

\* C16: for a one-per-customer coupon and a customer email, a validation
\* that arrives when a usage record exists, or after a checkout applied the
\* coupon for that email, is rejected as already used at the usage lookup and
\* never reaches the evaluator.
C16_OnePerCustomer ==
  /\ [][( /\ cpn.pc = "usage" /\ cpn'.pc # cpn.pc
          /\ cpn.usageAtStart >= 1 )
        => (cpn'.pc = "done" /\ cpn'.result.error = "already_used")]_vars
  /\ [][( /\ cpn.pc = "usage" /\ cpn'.pc # cpn.pc
          /\ cpn.appliedAtStart )
        => (cpn'.pc = "done" /\ cpn'.result.error = "already_used")]_vars

\* the rate the specification prescribes
ExpectedRate(config, country) ==
  IF config.mode = "basic"
    THEN IF country \in ValueOf(config.domestic_countries)
           THEN ValueOf(config.domestic_rate)
           ELSE ValueOf(config.international_rate)
    ELSE IF country \in DOMAIN ValueOf(config.country_rates)
           THEN ValueOf(config.country_rates)[country]
           ELSE ValueOf(config.default_rate)

\* C17: for every country and configuration read, the resolver answers with
\* the domestic or international rate (basic mode) or the table value or
\* default rate (advanced mode), never with an error or without a rate.
C17_RateResolved ==
  (shp.pc = "done" /\ shp.country # "" /\ shp.resp.status # 500) =>
    /\ shp.resp.status = 200
    /\ shp.resp.shippingCost = {ExpectedRate(shp.config, shp.country)}

RangeOf(seq) == { seq[i] : i \in DOMAIN seq }
OnChainCodes == {"BTC", "BTC-CHAIN", "BTC-OnChain"}
LightningCodes == {"BTC-LightningNetwork", "BTC-LN", "BTC-LNURL", "BTC_LightningLike"}
MoneroCodes == {"XMR", "XMR-CHAIN"}

\* C18: the payment methods sent with the invoice are the on-chain and the
\* lightning code for 'bitcoin', only the Monero code for 'monero', and both
\* Bitcoin and Monero when the preference is unset.
C18_PaymentMethods ==
  inv.pc = "awaitBtcpay" =>
    LET methods == RangeOf(inv.paymentMethods) IN
      /\ inv.preferredCrypto = "bitcoin" =>
           /\ methods \cap OnChainCodes # {}
           /\ methods \cap LightningCodes # {}
           /\ methods \subseteq OnChainCodes \cup LightningCodes
      /\ inv.preferredCrypto = "monero" =>
           (methods # {} /\ methods \subseteq MoneroCodes)
      /\ inv.preferredCrypto = "unset" =>
           /\ methods \cap OnChainCodes # {}
           /\ methods \cap MoneroCodes # {}

\* C19: when invoice creation fails after the order was created, the order
\* row stays as inserted (status 'pending', no invoice id), the invoice id is
\* written to an order only by the linkage step, the payment screen is not
\* shown, and handleCheckout can be started again.
C19_InvoiceFailureKeepsOrder ==
  /\ [][(page.hc = "awaitInvoice" /\ page'.hc = "idle") =>
          /\ orders' = orders
          /\ Len(orders) >= 1
          /\ orders[Len(orders)].status = "pending"
          /\ orders[Len(orders)].btcpay_invoice_id = "null"
          /\ ~page'.showPayment /\ page'.invoiceId = "null"
          /\ ~page'.isProcessing
          /\ page'.toast \in {"failed_to_create_invoice", "fetch_failed"}]_vars
  /\ [][\A o \in OrderIds :
          orders'[o].btcpay_invoice_id # orders[o].btcpay_invoice_id =>
            page.hc = "awaitLink"]_vars

\* C19 witness: invoice creation failed for the first order, which is still
\* pending without an invoice id, and the user has started checkout again
C19_Witness ==
  /\ page.toast = "failed_to_create_invoice"
  /\ page.hc = "awaitOrder" /\ page.isProcessing
  /\ ~page.paymentShown
  /\ Len(orders) = 1
  /\ orders[1].status = "pending" /\ orders[1].btcpay_invoice_id = "null"

\* C20: once the invoice was created, however the update-invoice call ends
\* (success, an error response, a failed request), the payment screen is
\* shown for the invoice.
C20_PaymentShownAfterLink ==
  [][(page.hc = "awaitLink" /\ page'.hc # "awaitLink") =>
       (page'.showPayment /\ page'.invoiceId = "set")]_vars

\* C21: an order becomes paid through mark-paid only when the processor has
\* reported 'Settled' or 'Processing' for its invoice (an invoice never
\* leaves these two states once it is in one of them).
C21_PaidOnlyAfterSettled ==
  \A o \in OrderIds :
    orders[o].status = "paid" => IsComplete(poll.invoice)

\* C22: the stock write of settlement stores the value computed from the
\* stock read earlier by the same request, whatever the stock is at the time
\* of the write (no guard); so of two concurrent settlements of different
\* orders for the same product one decrement can be lost (the witness).
C22_UnguardedReadModifyWrite ==
  [][\A r \in MarkPaidReqs :
       (mp[r].pc = "write" /\ mp'[r] # mp[r] /\ stock' # stock) =>
         LET item == mp[r].items[mp[r].idx] IN
           stock' = [stock EXCEPT
                       ![item.id] = Max(0, mp[r].read - item.quantity)]]_vars

\* C22 witness: two orders of one unit of p1 each, both paid, each with its
\* decrement written exactly once, and the stock went down by one unit only
C22_Witness ==
  /\ Len(orders) = 2
  /\ \A o \in {1, 2} :
       /\ orders[o].status = "paid"
       /\ orders[o].items = <<Item("p1", 100, 1, <<>>)>>
       /\ decs[o][1] = 1
  /\ stock["p1"] = MaxStock - 1

\* C23: in the settlement loop a failed read or write of one item's stock
\* changes no stock and no order and leaves the request in the loop at the
\* next item, with the same order and item list; no step of the loop ends
\* the request; and the status update that follows the loop sets status
\* 'paid' and the paid timestamp whatever the loop wrote.
C23_ItemFailureNotFatal ==
  /\ [][\A r \in MarkPaidReqs :
          (/\ mp[r].pc \in {"item", "write"}
           /\ mp[r].idx <= Len(mp[r].items)
           /\ mp'[r] # mp[r]) =>
            /\ orders' = orders
            /\ mp'[r].orderId = mp[r].orderId /\ mp'[r].items = mp[r].items
            /\ \/ mp[r].pc = "item" /\ mp'[r].pc = "write"
                  /\ mp'[r].idx = mp[r].idx /\ stock' = stock /\ decs' = decs
               \/ mp'[r].pc = "item" /\ mp'[r].idx = mp[r].idx + 1
                  /\ (\* a write that was not recorded is a failed one
                      (decs' = decs /\ decs[mp[r].orderId][mp[r].idx] < 2)
                        => stock' = stock)]_vars
  /\ [][\A r \in MarkPaidReqs :
          (mp[r].pc = "item" /\ mp'[r].pc = "done" /\ mp'[r].result = "success") =>
            /\ mp[r].idx = Len(mp[r].items) + 1
            /\ orders'[mp[r].orderId].status = "paid"
            /\ orders'[mp[r].orderId].paid_at]_vars

\* C23 witness: an order of two line items is paid with its timestamp; the
\* first item was skipped and only the second product's stock went down
C23_Witness ==
  \E o \in OrderIds :
    /\ Len(orders[o].items) = 2
    /\ orders[o].status = "paid" /\ orders[o].paid_at
    /\ decs[o] = <<0, 1>>
    /\ stock["p1"] = MaxStock
    /\ stock["p2"] = MaxStock - orders[o].items[2].quantity

\* the quantity of product p in a list of line items
RECURSIVE QuantityOf(_, _)
QuantityOf(p, items) ==
  IF items = <<>> THEN 0
  ELSE (IF Head(items).id = p THEN Head(items).quantity ELSE 0)
       + QuantityOf(p, Tail(items))

\* the quantity of product p over the paid orders among the first n orders
RECURSIVE PaidQuantity(_, _)
PaidQuantity(p, n) ==
  IF n = 0 THEN 0
  ELSE (IF orders[n].status = "paid" THEN QuantityOf(p, orders[n].items) ELSE 0)
       + PaidQuantity(p, n - 1)

\* C26: the total quantity of a product over all paid orders never exceeds
\* the stock the product had.
C26_NoOversell ==
  \A p \in ProductIds : PaidQuantity(p, Len(orders)) <= MaxStock

\* the allowed checks of key k at the minutes from..to
RECURSIVE AllowedBetween(_, _, _)
AllowedBetween(k, from, to) ==
  IF from > to THEN 0
  ELSE (IF to \in 0..MaxRateTime THEN rl.allowed[k][to] ELSE 0)
       + AllowedBetween(k, from, to - 1)

\* C24: for a key checked with one preset, (1) the checks allowed between a
\* window's start and its reset time are as many as the stored count and at
\* most maxRequests; (2) the remaining count reported is maxRequests minus
\* the stored count and not negative; (3) a rejected check leaves the store
\* unchanged; (4) a check with no entry or after the reset time is allowed
\* and opens a window with count 1; a check touches no other key's entry;
\* (5) a step that is not a check removes only entries whose window expired.
C24_FixedWindow ==
  /\ [](\A k \in ClientKeys : rl.store[k] # {} =>
          LET entry == ValueOf(rl.store[k])
              config == RateLimitPresets[KeyPreset[k]] IN
          /\ AllowedBetween(k, entry.resetTime - config.windowMs, entry.resetTime)
               = entry.count
          /\ entry.count <= config.maxRequests)
  /\ [][rl'.checks = rl.checks + 1 =>
          LET k == rl'.last.key
              config == RateLimitPresets[rl'.last.preset] IN
          /\ rl'.last.preset = KeyPreset[k]
          /\ rl'.store[k] # {}
          /\ rl'.last.remaining = config.maxRequests - ValueOf(rl'.store[k]).count
          /\ rl'.last.remaining >= 0
          /\ ~rl'.last.isAllowed => rl'.store = rl.store
          /\ (rl.store[k] = {} \/ rl.now > ValueOf(rl.store[k]).resetTime) =>
               /\ rl'.last.isAllowed
               /\ rl'.store[k] = {[count |-> 1,
                                   resetTime |-> rl.now + config.windowMs]}
          /\ \A other \in ClientKeys \ {k} : rl'.store[other] = rl.store[other]]_vars
  /\ [][rl'.checks = rl.checks =>
          \A k \in ClientKeys :
            rl'.store[k] # rl.store[k] =>
              /\ rl.store[k] # {} /\ rl.now > ValueOf(rl.store[k]).resetTime
              /\ rl'.store[k] = {}]_vars

\* C24 witness: six checks of k1 were allowed in minute 0, a seventh was
\* rejected, and the check after the reset time opened a new window
C24_Witness ==
  /\ rl.allowed["k1"][0] = RateLimitPresets["ORDER_CREATE"].maxRequests
  /\ rl.asked["k1"]["ORDER_CREATE"] = RateLimitPresets["ORDER_CREATE"].maxRequests + 2
  /\ rl.last.isAllowed
  /\ rl.store["k1"] = {[count |-> 1, resetTime |-> rl.now + 1]}

\* C30: the ORDER_CREATE budget of a client depends on its ORDER_CREATE
\* checks only: a client that made fewer ORDER_CREATE checks than the preset
\* allows per window is allowed its next one, whatever it asked of endpoints
\* limited by other presets.
C30_PresetsIndependent ==
  [][(/\ rl'.checks = rl.checks + 1
      /\ rl'.last.preset = "ORDER_CREATE"
      /\ rl.asked[rl'.last.key]["ORDER_CREATE"]
           < RateLimitPresets["ORDER_CREATE"].maxRequests) =>
        rl'.last.isAllowed]_vars

\* C29: for a coupon with max_uses set, current_uses never exceeds max_uses
\* and the orders created with the coupon never number more than max_uses.
C29_CouponUsesBounded ==
  cpn.coupon.max_uses # {} =>
    /\ cpn.coupon.current_uses <= ValueOf(cpn.coupon.max_uses)
    /\ CouponOrders <= ValueOf(cpn.coupon.max_uses)

\* C25: the poll interval and the countdown interval exist together and
\* neither exists after teardown; after teardown no new status fetch is
\* started; while the screen is mounted the poll interval exists, also after
\* completion was triggered; the countdown is never negative.
C25_IntervalsCancelledTogether ==
  /\ [](/\ poll.interval = poll.timerInterval
        /\ (~poll.mounted => ~poll.interval /\ ~poll.timerInterval)
        /\ (poll.mounted => poll.interval)
        /\ poll.timeLeft >= 0)
  /\ [][~poll'.mounted =>
          \A c \in BOOLEAN : poll'.inflight[c] <= poll.inflight[c]]_vars

\* C25 witness: the screen was torn down after completion; both intervals
\* are cancelled while a fetch started after completion is still in flight
C25_Witness ==
  /\ ~poll.mounted /\ poll.completionTriggered
  /\ ~poll.interval /\ ~poll.timerInterval
  /\ poll.inflight[TRUE] >= 1
  /\ poll.onCompleteCalls >= 1

\* the cart's lines of one product differ in their modifier selection
DistinctLines(items) ==
  \A i, j \in DOMAIN items :
    (i # j /\ items[i].id = items[j].id) =>
      items[i].selectedModifiers # items[j].selectedModifiers

\* C27: an order is accepted only if, for every product, the quantities of
\* all its line items together do not exceed the product's stock.
C27_StockSummedPerProduct ==
  (cr.pc = "done" /\ cr.resp.kind = "ok" /\ DistinctLines(cr.req.items)) =>
    \A p \in ProductIds : QuantityOf(p, cr.req.items) <= stock[p]

\* the product ids of a list of line items
ItemIds(items) == { items[i].id : i \in DOMAIN items }

\* what the coupon evaluator allows an order with these items and this code
AllowedDiscount(items, code) ==
  LET res == ValidateCoupon(cpn.coupon, CalculatedSubtotal(items),
                            {ItemIds(items)}, now) IN
  IF code = CreateCouponCode /\ res.valid THEN ValueOf(res.discount) ELSE 0

\* the items priced by the catalog
RECURSIVE CatalogSubtotal(_)
CatalogSubtotal(items) ==
  IF items = <<>> THEN 0
  ELSE (CatalogPrice[Head(items).id] + ModifierTotal(Head(items)))
         * Head(items).quantity
       + CatalogSubtotal(Tail(items))

\* C28: a stored order has a non-zero coupon_discount only if its coupon_code
\* names the coupon, the coupon is valid for the order and the discount is at
\* most what the evaluator computes; and the stored total is not below the
\* catalog-priced items plus shipping minus the discount the coupon allows.
C28_DiscountBackedByCoupon ==
  \A o \in OrderIds :
    LET row == orders[o]
        allowed == AllowedDiscount(row.items, row.coupon_code) IN
    /\ row.coupon_discount <= allowed
    /\ row.total_amount + Tolerance >=
         CatalogSubtotal(row.items) + row.shipping_cost - allowed

====
